---- MODULE Spec2Model ----
(***************************************************************************)
(* scrape_linkedin (src/main.py) as a state machine.                       *)
(*                                                                         *)
(* Strings are sequences of one-character strings ("" is <<>>), so that    *)
(* split("?")[0] and strip() are computed, not assumed.  A DOM read is an  *)
(* outcome <<tag, value>>: the locator raised ("throw"), the attribute is  *)
(* missing ("none", Python's None) or a value was read ("val").            *)
(*                                                                         *)
(* The rendered feed is a sequence of record roots.  A root's span texts   *)
(* and its two href locators are fixed when the root is rendered; the      *)
(* title/employer locator outcomes and the detail page of a listing are    *)
(* drawn when the code reads them (each is read at most once per accepted  *)
(* key).                                                                   *)
(***************************************************************************)
EXTENDS Integers, Sequences, FiniteSets, TLC

VARIABLES
    want_easy,      \* line 58: apply_type == "easy"
    limit,          \* parameter limit
    dom,            \* roots matched by "ul.jobs-search__results-list li"
    waitLapsed,     \* lines 70-73: wait_for_selector timed out
    pc,             \* position in scrape_linkedin
    passes,         \* iterations of the for loop at line 78 begun so far
    count,          \* line 80
    i,              \* line 82
    results,        \* line 61
    seen,           \* line 62
    last_count,     \* line 75
    stable_loops,   \* line 76
    job_link,       \* lines 100-112, live during enrichment
    role,           \* lines 94-95, live during enrichment
    company,        \* lines 96-98, live during enrichment
    apply_link,     \* line 122
    openPages,      \* auxiliary pages of ctx that are open
    browserOpen,    \* browser launched and not closed
    \* history variables (not program state)
    origin,         \* per record: root, pass, visit of the root, listing key,
                    \* what enrichment read
    lastGrowPass,   \* last pass whose root set differed from the pass before
    processed,      \* roots classified so far (loop bodies begun)
    matched,        \* root positions that passed the channel filter
    passAccepted,   \* records accepted in the current pass
    zeroRun,        \* completed passes in a row that accepted nothing
    passEnds,       \* completed passes (line 141 reached)
    enrichFailed,   \* enrichments that yielded no apply link
    auxOpened,      \* ctx.new_page() calls at line 124
    lastCand,       \* the last candidate of this pass that reached seen.add
    visits,         \* per root position: loop bodies (line 83) begun on it
    enriched,       \* per root position: enrichments (line 122) begun for it
    \* canonicalisation on its own
    link,           \* input link
    canon1,         \* Canon(link)
    canon2          \* Canon(Canon(link))

vars == <<want_easy, limit, dom, waitLapsed, pc, passes, count, i, results, seen,
          last_count, stable_loops, job_link, role, company, apply_link,
          openPages, browserOpen, origin, lastGrowPass, processed, matched,
          passAccepted, zeroRun, passEnds, enrichFailed, auxOpened, lastCand,
          visits, enriched, link, canon1, canon2>>

canonVars == <<link, canon1, canon2>>

---------------------------------------------------------------------------
\* Bounds of the model
MaxRoots == 2        \* roots of a freely drawn feed
MaxLimit == 2        \* largest cap drawn
MaxLen == 4          \* longest link drawn for canonicalisation
LongCap == 61        \* cap of the steady feed, above what 60 passes can accept

\* Program constants
MaxPasses == 60
StableThreshold == 4

---------------------------------------------------------------------------
\* DOM read outcomes
Throw == <<"throw", <<>>>>
None == <<"none", <<>>>>
Val(s) == <<"val", s>>

\* Python truthiness of a value read: not None and not ""
Truthy(o) == o[1] = "val" /\ o[2] # <<>>

\* str.lower() on a word
Lower(w) ==
    CASE w = "EASY" -> "easy"
      [] w = "Easy" -> "easy"
      [] w = "APPLY" -> "apply"
      [] w = "Apply" -> "apply"
      [] w = "Promoted" -> "promoted"
      [] OTHER -> w

LowerText(t) == [k \in 1..Len(t) |-> Lower(t[k])]

\* needle in t, on texts that are sequences of words
Contains(t, needle) ==
    \E s \in 0..(Len(t) - Len(needle)) :
        \A k \in 1..Len(needle) : t[s + k] = needle[k]

Needle == <<"Easy", "Apply">>

\* has_text: False when the locator raises
has_text(locator, needle) ==
    IF locator[1] # "val" THEN FALSE
    ELSE \E k \in 1..Len(locator[2]) :
            Contains(LowerText(locator[2][k]), LowerText(needle))

\* str.strip()
RECURSIVE LStrip(_)
LStrip(s) == IF s # <<>> /\ Head(s) = " " THEN LStrip(Tail(s)) ELSE s

RECURSIVE RStrip(_)
RStrip(s) ==
    IF s # <<>> /\ s[Len(s)] = " " THEN RStrip(SubSeq(s, 1, Len(s) - 1)) ELSE s

Strip(s) == RStrip(LStrip(s))

\* get_text_safe: "" when the locator raises
get_text_safe(locator) == IF locator[1] = "val" THEN Strip(locator[2]) ELSE <<>>

\* a or b or ... over get_text_safe results
RECURSIVE FirstText(_)
FirstText(chain) ==
    IF Len(chain) = 1 THEN get_text_safe(chain[1])
    ELSE IF get_text_safe(Head(chain)) # <<>> THEN get_text_safe(Head(chain))
    ELSE FirstText(Tail(chain))

\* The nested try/except of the card's link: only a raise reaches the fallback
CardLink(href) ==
    IF href[1] # Throw THEN href[1]
    ELSE IF href[2] # Throw THEN href[2]
    ELSE None

\* Mutant: rsplit, the query string cut at the last "?"
RECURSIVE Canon_last(_)
Canon_last(s) ==
    IF s = <<>> THEN <<>>
    ELSE IF s[Len(s)] = "?" THEN SubSeq(s, 1, Len(s) - 1)
    ELSE IF \E k \in 1..Len(s) : s[k] = "?" THEN Canon_last(SubSeq(s, 1, Len(s) - 1))
    ELSE s

\* job_link.split("?")[0]
RECURSIVE Canon(_)
Canon(s) ==
    IF s = <<>> THEN <<>>
    ELSE IF Head(s) = "?" THEN <<>>
    ELSE <<Head(s)>> \o Canon(Tail(s))

\* li_find_external_apply: first truthy href of the candidates, else None
RECURSIVE li_find_external_apply(_)
li_find_external_apply(job_page) ==
    IF job_page = <<>> THEN None
    ELSE IF Truthy(Head(job_page)) THEN Head(job_page)
    ELSE li_find_external_apply(Tail(job_page))

\* Mutant: the second filter (line 91) left out
Matches_badgeOnly(want, is_easy) == ~(want /\ ~is_easy)

\* lines 89-92
Matches(want, is_easy) == ~((want /\ ~is_easy) \/ (~want /\ is_easy))

\* Mutant: > for >=
CapReached_gt(res, lim) == Len(res) > lim

\* line 136
CapReached(res, lim) == Len(res) >= lim

---------------------------------------------------------------------------
\* Inputs

\* An all_inner_texts() result is a sequence of texts, a text a sequence of words
Plain == Val(<< <<"Promoted">> >>)
Badge == Val(<< <<"Promoted">>, <<"EASY", "APPLY", "now">> >>)
SpanKinds == { Plain, Badge }

HrefKinds == { <<Throw, Val(<<"a", "?", "x">>)>>,
               <<Val(<<"b", "?", "y">>), Throw>> }

\* Roots of the freely drawn feeds
RootKinds == [spans : SpanKinds, href : HrefKinds]

\* Roots with drifted markup: no anchor at all, a first anchor without href
\* (None), with an empty href or with a href that is only a query string, a
\* span locator that raises
NoAnchor(sp) == [spans |-> sp, href |-> <<Throw, Throw>>]
NoHref(sp) == [spans |-> sp, href |-> <<None, Val(<<"b">>)>>]
EmptyHref(sp) == [spans |-> sp, href |-> <<Val(<<>>), Val(<<"b">>)>>]
RaisingSpans == [spans |-> Throw, href |-> <<Val(<<"c">>), Throw>>]

QueryOnly(sp) == [spans |-> sp, href |-> <<Val(<<"?", "q">>), Throw>>]

Drifted == { <<NoAnchor(sp), NoHref(sp), RaisingSpans, EmptyHref(sp), QueryOnly(sp),
               [spans |-> sp, href |-> <<Val(<<"a", "?", "x">>), Throw>>],
               [spans |-> sp, href |-> <<Val(<<"a", "?", "z">>), Throw>>]>> :
             sp \in SpanKinds }

\* Feeds in which two roots share a canonical link
Repeated == { <<[spans |-> sp, href |-> <<Val(<<"a", "?", "x">>), Throw>>],
                [spans |-> sp, href |-> <<Val(<<"a", "?", "z">>), Throw>>],
                [spans |-> sp, href |-> <<Val(<<"b", "?", "y">>), Throw>>]>> :
              sp \in SpanKinds }

Feeds(n) == UNION { [1..m -> RootKinds] : m \in 0..n }

\* Scenario feeds: every root channel-matching, links pairwise distinct
Letters == <<"a", "b", "c", "d", "e", "f", "g", "h", "j", "k", "m", "n">>
ScenarioRoots == 10

EasyRoot(n) == [spans |-> Val(<< <<"Easy", "Apply">> >>),
                href |-> <<Val(<<Letters[n], "?", "x">>), Throw>>]
PlainRoot(n) == [spans |-> Plain,
                 href |-> <<Val(<<Letters[n]>>), Throw>>]

AllMatching(easy) ==
    [n \in 1..ScenarioRoots |-> IF easy THEN EasyRoot(n) ELSE PlainRoot(n)]

Mixed == { <<EasyRoot(1), EasyRoot(2), EasyRoot(3), PlainRoot(4), PlainRoot(5)>>,
           <<PlainRoot(1), EasyRoot(2), PlainRoot(3), EasyRoot(4), EasyRoot(5)>> }

\* The steady feed: one more Easy Apply root, with a link of its own, is
\* rendered by every scroll until the feed runs dry
SteadyRoot(n) ==
    [spans |-> Val(<< <<"Easy", "Apply">> >>),
     href |-> <<Val(<<Letters[((n - 1) \div Len(Letters)) + 1],
                      Letters[((n - 1) % Len(Letters)) + 1], "?", "x">>), Throw>>]

Caps == (1..MaxLimit) \cup {5, LongCap}

\* First renders drawn for a cap: the free, drifted and repeated feeds for the caps
\* up to MaxLimit, the two scenarios with their caps (1 and 5) and the steady
\* feed with its cap
FirstRenders(lim) ==
    (IF lim <= MaxLimit THEN Feeds(MaxRoots) \cup Drifted \cup Repeated ELSE {})
    \cup (IF lim = 1 THEN {AllMatching(TRUE), AllMatching(FALSE)} ELSE {})
    \cup (IF lim = 5 THEN Mixed ELSE {})
    \cup (IF lim = LongCap THEN {<<SteadyRoot(1)>>} ELSE {})

\* What a scroll renders more: at most one root while a free feed is within
\* MaxRoots; for the steady feed one root per scroll until it runs dry
MoreRoots(lim, d, p) ==
    IF lim = LongCap
    THEN {<<>>} \cup (IF Len(d) = p THEN {<<SteadyRoot(Len(d) + 1)>>} ELSE {})
    ELSE { more \in Feeds(1) : more = <<>> \/ Len(d) + Len(more) <= MaxRoots }

\* What the title and employer locators of a card yield, as drawn together
TextKinds == { [title |-> <<Throw, Throw>>,
                employer |-> <<Throw, Val(<<" ">>), Val(<<"E", " ">>)>>],
               [title |-> <<Val(<<" ">>), Val(<<" ", "T">>)>>,
                employer |-> <<Throw, Throw, Throw>>],
               [title |-> <<Val(<<"T">>), Throw>>,
                employer |-> <<Val(<<"E">>), Throw, Throw>>] }

\* The texts drawn for a card: the roots of the steady feed all read alike
Texts(lim) ==
    IF lim = LongCap THEN { txt \in TextKinds : txt.title[1] = Val(<<"T">>) }
    ELSE TextKinds

\* A locator chain all of whose locators raise
AllFail(chain) == \A k \in 1..Len(chain) : chain[k] = Throw

DetailOutcomes == { Throw, None, Val(<<>>), Val(<<"x">>), Val(<<"y", "?", "u">>) }
DetailPages == { p \in [1..4 -> DetailOutcomes] :
                    p[2] = Throw /\ p[3] \in {Throw, None, Val(<<>>)} }

LinkChars == {"a", "b", "?"}
Links(n) == UNION { [1..m -> LinkChars] : m \in 0..n }

---------------------------------------------------------------------------
\* The crawl

NoCand == [key |-> <<>>, root |-> 0, noTitle |-> FALSE, noEmployer |-> FALSE,
           done |-> TRUE, out |-> None]

CrawlInit ==
    /\ want_easy \in BOOLEAN
    /\ limit \in Caps
    /\ dom = <<>>
    /\ waitLapsed = FALSE
    /\ pc = "load"
    /\ passes = 0
    /\ count = 0
    /\ i = 0
    /\ results = <<>>
    /\ seen = {}
    /\ last_count = 0
    /\ stable_loops = 0
    /\ job_link = <<>>
    /\ role = <<>>
    /\ company = <<>>
    /\ apply_link = None
    /\ openPages = 0
    /\ browserOpen = FALSE
    /\ origin = <<>>
    /\ lastGrowPass = 0
    /\ processed = 0
    /\ matched = {}
    /\ passAccepted = 0
    /\ zeroRun = 0
    /\ passEnds = 0
    /\ enrichFailed = 0
    /\ auxOpened = 0
    /\ lastCand = NoCand
    /\ visits = <<>>
    /\ enriched = <<>>

Init ==
    /\ CrawlInit
    /\ link = <<>>
    /\ canon1 = <<>>
    /\ canon2 = <<>>

\* Mutant: the timeout of the wait propagates and ends the crawl
AfterWait_fatal(lapsed) == IF lapsed THEN "done" ELSE "scan"

\* lines 70-73: except PWTimeout: pass
AfterWait(lapsed) == "scan"

\* lines 64-76: launch, navigate, tolerate a lapsed wait for the first root
Load ==
    /\ pc = "load"
    /\ \E f \in FirstRenders(limit) :
        /\ dom' = f
        /\ waitLapsed' = (f = <<>>)
        /\ visits' = [n \in 1..Len(f) |-> 0]
        /\ enriched' = [n \in 1..Len(f) |-> 0]
    /\ browserOpen' = TRUE
    /\ last_count' = 0
    /\ stable_loops' = 0
    /\ pc' = AfterWait(waitLapsed')
    /\ UNCHANGED <<want_easy, limit, passes, count, i, results, seen, job_link,
                   role, company, apply_link, openPages, origin, lastGrowPass,
                   processed, matched, passAccepted, zeroRun, passEnds,
                   enrichFailed, auxOpened, lastCand, canonVars>>

\* lines 78-80: next iteration of the pass loop, re-query the roots
BeginPass ==
    /\ pc = "scan"
    /\ passes' = passes + 1
    /\ count' = Len(dom)
    /\ i' = 0
    /\ pc' = "card"
    /\ passAccepted' = 0
    /\ lastCand' = NoCand
    /\ lastGrowPass' = IF passes = 0 \/ Len(dom) > count THEN passes + 1
                       ELSE lastGrowPass
    /\ UNCHANGED <<want_easy, limit, dom, waitLapsed, results, seen, last_count,
                   stable_loops, job_link, role, company, apply_link, openPages,
                   browserOpen, origin, processed, matched, zeroRun, passEnds,
                   enrichFailed, auxOpened, visits,
                   enriched, canonVars>>

\* lines 137-138 and 153: browser.close() closes every page of the browser
CloseBrowser ==
    /\ browserOpen' = FALSE
    /\ openPages' = 0
    /\ pc' = "done"

\* line 110, 114, 90, 92: continue
Continue ==
    /\ i' = i + 1
    /\ pc' = "card"
    /\ UNCHANGED <<openPages, browserOpen>>

\* Mutant: a candidate without a title is dropped as well
HasLink_andRole(raw, r, c) == Truthy(raw) /\ r # <<>>

\* line 109: the candidate is kept only with a link
HasLink(raw, r, c) == Truthy(raw)

\* Mutant: the membership test is left out
Seen_never(key, s) == FALSE

\* line 113: job_link in seen
Seen(key, s) == key \in s

\* Mutant: the key is never recorded
SeenAdd_none(s, key) == s

\* line 115: seen.add(job_link), before the mode branch and the enrichment
SeenAdd(s, key) == s \cup {key}

\* Mutant: the title and the link change places
Listing_swapped(c, r, jl) == [company |-> c, role |-> jl, link |-> r]

\* lines 117-119: what INSTANT mode emits, the canonical listing link
Listing(c, r, jl) == [company |-> c, role |-> r, link |-> jl]

\* Mutant: the record is put in front
Accept_front(res, rec) == <<rec>> \o res

\* lines 119 and 133: results.append
Accept(res, rec) == Append(res, rec)

\* Mutant: the cap is not tested inside the scan
AfterRecord_continue == Continue

\* lines 136-138: return as soon as the cap is reached, else the next root
AfterRecord ==
    IF CapReached(results', limit) THEN CloseBrowser /\ i' = i ELSE Continue

\* lines 82-119 and 136-138: one root, up to the record (INSTANT) or up to
\* the start of its enrichment (EXTERNAL)
Card ==
    /\ pc = "card"
    /\ i < count
    /\ processed' = processed + 1
    /\ visits' = [visits EXCEPT ![i + 1] = @ + 1]
    /\ LET card == dom[i + 1]
           is_easy == has_text(card.spans, Needle)
           raw == CardLink(card.href)
           key == Canon(raw[2])
           fresh == Truthy(raw) /\ key \notin seen
       IN  IF ~Matches(want_easy, is_easy)
           THEN /\ Continue
                /\ UNCHANGED <<results, seen, job_link, role, company, origin,
                               matched, passAccepted, lastCand, enriched>>
           ELSE /\ matched' = matched \cup {i + 1}
                /\ \E txt \in Texts(limit) :
                    LET t == txt.title
                        e == txt.employer
                        r == FirstText(t)
                        c == FirstText(e)
                        skip == ~HasLink(raw, r, c) \/ Seen(key, seen)
                    IN  /\ lastCand' =
                            IF fresh
                            THEN [key |-> key, root |-> i + 1,
                                  noTitle |-> AllFail(t), noEmployer |-> AllFail(e),
                                  done |-> (skip \/ want_easy), out |-> None]
                            ELSE lastCand
                        /\ IF skip
                           THEN /\ Continue
                                /\ UNCHANGED <<results, seen, job_link, role,
                                               company, origin, passAccepted,
                                               enriched>>
                           ELSE /\ seen' = SeenAdd(seen, key)
                                /\ IF want_easy
                                   THEN /\ results' = Accept(results,
                                               Listing(c, r, key))
                                        /\ origin' = Append(origin,
                                               [root |-> i + 1, pass |-> passes,
                                                visit |-> visits'[i + 1],
                                                key |-> key, ext |-> None])
                                        /\ passAccepted' = passAccepted + 1
                                        /\ UNCHANGED <<job_link, role, company,
                                                       enriched>>
                                        /\ AfterRecord
                                   ELSE /\ job_link' = key
                                        /\ role' = r
                                        /\ company' = c
                                        /\ enriched' =
                                             [enriched EXCEPT ![i + 1] = @ + 1]
                                        /\ pc' = "newpage"
                                        /\ UNCHANGED <<results, origin, passAccepted,
                                                       i, openPages, browserOpen>>
    /\ UNCHANGED <<want_easy, limit, dom, waitLapsed, passes, count, last_count,
                   stable_loops, apply_link, lastGrowPass, zeroRun, passEnds,
                   enrichFailed, auxOpened, canonVars>>

\* lines 122-124, 129-130: the auxiliary page opens, or new_page raises into
\* the except
NewPage ==
    /\ pc = "newpage"
    /\ apply_link' = None
    /\ \E ok \in BOOLEAN :
        IF ok
        THEN /\ openPages' = openPages + 1
             /\ auxOpened' = auxOpened + 1
             /\ pc' = "goto"
        ELSE /\ pc' = "post"
             /\ UNCHANGED <<openPages, auxOpened>>
    /\ UNCHANGED <<want_easy, limit, dom, waitLapsed, passes, count, i, results,
                   seen, last_count, stable_loops, job_link, role, company,
                   browserOpen, origin, lastGrowPass, processed, matched,
                   passAccepted, zeroRun, passEnds, enrichFailed, lastCand,
                   visits, enriched, canonVars>>

\* lines 125-126, 129-130: the load succeeds, or raises into the except
Goto ==
    /\ pc = "goto"
    /\ \E ok \in BOOLEAN :
        pc' = IF ok THEN "find" ELSE "post"
    /\ UNCHANGED <<want_easy, limit, dom, waitLapsed, passes, count, i, results,
                   seen, last_count, stable_loops, job_link, role, company,
                   apply_link, openPages, browserOpen, origin, lastGrowPass,
                   processed, matched, passAccepted, zeroRun, passEnds,
                   enrichFailed, auxOpened, lastCand, visits,
                   enriched, canonVars>>

\* line 127
Find ==
    /\ pc = "find"
    /\ \E job_page \in DetailPages :
        apply_link' = li_find_external_apply(job_page)
    /\ pc' = "close"
    /\ UNCHANGED <<want_easy, limit, dom, waitLapsed, passes, count, i, results,
                   seen, last_count, stable_loops, job_link, role, company,
                   openPages, browserOpen, origin, lastGrowPass, processed,
                   matched, passAccepted, zeroRun, passEnds, enrichFailed,
                   auxOpened, lastCand, visits,
                   enriched, canonVars>>

\* line 128
ClosePage ==
    /\ pc = "close"
    /\ openPages' = openPages - 1
    /\ pc' = "post"
    /\ UNCHANGED <<want_easy, limit, dom, waitLapsed, passes, count, i, results,
                   seen, last_count, stable_loops, job_link, role, company,
                   apply_link, browserOpen, origin, lastGrowPass, processed,
                   matched, passAccepted, zeroRun, passEnds, enrichFailed,
                   auxOpened, lastCand, visits,
                   enriched, canonVars>>

\* lines 132-133: what EXTERNAL mode emits for a resolved apply link
Emit(c, r, jl, al) == [company |-> c, role |-> r, link |-> al[2]]

\* Mutant: the record is appended whatever enrichment found
Resolved_any(al) == TRUE

\* line 132
Resolved(al) == Truthy(al)

\* lines 132-138
Post ==
    /\ pc = "post"
    /\ enrichFailed' = IF Resolved(apply_link) THEN enrichFailed ELSE enrichFailed + 1
    /\ lastCand' = [lastCand EXCEPT !.done = TRUE, !.out = apply_link]
    /\ IF Resolved(apply_link)
       THEN /\ results' = Accept(results, Emit(company, role, job_link, apply_link))
            /\ origin' = Append(origin, [root |-> i + 1, pass |-> passes,
                                          visit |-> visits[i + 1],
                                          key |-> job_link, ext |-> apply_link])
            /\ passAccepted' = passAccepted + 1
       ELSE UNCHANGED <<results, origin, passAccepted>>
    /\ AfterRecord
    /\ job_link' = <<>>
    /\ role' = <<>>
    /\ company' = <<>>
    /\ apply_link' = None
    /\ UNCHANGED <<want_easy, limit, dom, waitLapsed, passes, count, seen,
                   last_count, stable_loops, lastGrowPass, processed, matched,
                   zeroRun, passEnds, auxOpened, visits, enriched, canonVars>>

\* Mutant: while True for the bounded loop
MorePasses_forever(p) == TRUE

\* line 78: for _ in range(60) has another iteration after p of them
MorePasses(p) == p < MaxPasses

\* Mutant: line 145 left out
LastNext_stale(len, last) == last

\* lines 141-145: the stable-pass counter after a pass
StableNext(len, last, stable) == IF len = last THEN stable + 1 ELSE 0
LastNext(len, last) == IF len = last THEN last ELSE len

\* Mutant: > for >=
Exhausted_late(stable) == stable > StableThreshold

\* line 146
Exhausted(stable) == stable >= StableThreshold

\* lines 141-147 and 153: end of a scan pass
EndPass ==
    /\ pc = "card"
    /\ i = count
    /\ stable_loops' = StableNext(Len(results), last_count, stable_loops)
    /\ last_count' = LastNext(Len(results), last_count)
    /\ passEnds' = passEnds + 1
    /\ zeroRun' = IF passAccepted = 0 THEN zeroRun + 1 ELSE 0
    /\ IF Exhausted(stable_loops')
       THEN CloseBrowser
       ELSE pc' = "scroll" /\ UNCHANGED <<openPages, browserOpen>>
    /\ UNCHANGED <<want_easy, limit, dom, waitLapsed, passes, count, i, results,
                   seen, job_link, role, company, apply_link, origin,
                   lastGrowPass, processed, matched, passAccepted, enrichFailed,
                   auxOpened, lastCand, visits,
                   enriched, canonVars>>

\* lines 150-151, then the loop head (line 78) or the exit at line 153
Scroll ==
    /\ pc = "scroll"
    /\ \E more \in MoreRoots(limit, dom, passes) :
        /\ dom' = dom \o more
        /\ visits' = visits \o [n \in 1..Len(more) |-> 0]
        /\ enriched' = enriched \o [n \in 1..Len(more) |-> 0]
    /\ IF MorePasses(passes)
       THEN pc' = "scan" /\ UNCHANGED <<openPages, browserOpen>>
       ELSE CloseBrowser
    /\ UNCHANGED <<want_easy, limit, waitLapsed, passes, count, i, results, seen,
                   last_count, stable_loops, job_link, role, company, apply_link,
                   origin, lastGrowPass, processed, matched, passAccepted,
                   zeroRun, passEnds, enrichFailed, auxOpened, lastCand, canonVars>>

\* Canonicalisation applied to a link, and again to its result
CanonInit ==
    /\ want_easy = TRUE
    /\ limit = 1
    /\ dom = <<>>
    /\ waitLapsed = FALSE
    /\ pc = "canon0"
    /\ passes = 0
    /\ count = 0
    /\ i = 0
    /\ results = <<>>
    /\ seen = {}
    /\ last_count = 0
    /\ stable_loops = 0
    /\ job_link = <<>>
    /\ role = <<>>
    /\ company = <<>>
    /\ apply_link = None
    /\ openPages = 0
    /\ browserOpen = FALSE
    /\ origin = <<>>
    /\ lastGrowPass = 0
    /\ processed = 0
    /\ matched = {}
    /\ passAccepted = 0
    /\ zeroRun = 0
    /\ passEnds = 0
    /\ enrichFailed = 0
    /\ auxOpened = 0
    /\ lastCand = NoCand
    /\ visits = <<>>
    /\ enriched = <<>>
    /\ link \in Links(MaxLen)
    /\ canon1 = <<>>
    /\ canon2 = <<>>

\* line 112 on a link
CanonOnce ==
    /\ pc = "canon0"
    /\ canon1' = Canon(link)
    /\ pc' = "canon1"
    /\ UNCHANGED <<want_easy, limit, dom, waitLapsed, passes, count, i, results,
                   seen, last_count, stable_loops, job_link, role, company,
                   apply_link, openPages, browserOpen, origin, lastGrowPass,
                   processed, matched, passAccepted, zeroRun, passEnds,
                   enrichFailed, auxOpened, lastCand, visits,
                   enriched, link, canon2>>

\* line 112 on an already canonical link
CanonTwice ==
    /\ pc = "canon1"
    /\ canon2' = Canon(canon1)
    /\ pc' = "canon2"
    /\ UNCHANGED <<want_easy, limit, dom, waitLapsed, passes, count, i, results,
                   seen, last_count, stable_loops, job_link, role, company,
                   apply_link, openPages, browserOpen, origin, lastGrowPass,
                   processed, matched, passAccepted, zeroRun, passEnds,
                   enrichFailed, auxOpened, lastCand, visits,
                   enriched, link, canon1>>

NextCanon == CanonOnce \/ CanonTwice

SpecCanon == CanonInit /\ [][NextCanon]_vars

Next == Load \/ BeginPass \/ Card \/ NewPage \/ Goto \/ Find \/ ClosePage
          \/ Post \/ EndPass \/ Scroll

Spec == Init /\ [][Next]_vars

---------------------------------------------------------------------------
\* Properties

InEnrichment == pc \in {"newpage", "goto", "find", "close", "post"}

\* The first render of the cap-1 scenario: ScenarioRoots roots, all matching
\* the desired channel, links pairwise distinct
AllMatchingScenario == limit = 1 /\ dom = AllMatching(want_easy)

\* C1: the returned sequence holds no two records whose links are the same
\* string once the query string is stripped, in INSTANT and in EXTERNAL mode.
C1_NoDuplicateLinks ==
    pc = "done" =>
        \A j, k \in 1..Len(results) :
            j < k => Canon(results[j].link) # Canon(results[k].link)

\* C2: in every state of the crawl, and at return, len(results) <= limit.
C2_CountWithinCap == Len(results) <= limit

\* C2 witness: the crawl returned mid-scan with the cap reached by more than
\* one record and a root left unprocessed.
C2_Witness ==
    /\ pc = "done"
    /\ Len(results) = limit
    /\ limit >= 2
    /\ i + 1 < count

\* C3: an auxiliary page is closed before the enrichment step is over and
\* before the next root is processed, on every exit path; so at most one is
\* open at any time and none outside an enrichment.
C3_AuxPagesClosed ==
    /\ openPages <= 1
    /\ pc \in {"post", "card", "scroll", "scan"} => openPages = 0

\* C4: when the feed shows no new root after pass k, the crawl ends after at
\* most k + 4 scan passes (k is lastGrowPass: the roots of every later pass
\* begun so far are those of pass k).
C4_StabilityTermination == passes <= lastGrowPass + 4

\* C4 witness: a feed that grew under scrolling and then stopped; the crawl
\* ended on the fourth pass after the last growth, with records.
C4_Witness ==
    /\ pc = "done"
    /\ lastGrowPass >= 2
    /\ passes = lastGrowPass + 4
    /\ Len(results) >= 1

\* C5 as stated: with cap 1 and the all-matching first render the crawl
\* processes exactly one root and opens no auxiliary page for another root,
\* in either mode; and whenever the cap is reached the crawl is done.
C5_StopsAfterOneRoot ==
    /\ Len(results) >= limit => pc = "done"
    /\ AllMatchingScenario => processed <= 1 /\ auxOpened <= 1
    /\ AllMatchingScenario /\ pc = "done" => processed = 1

\* C5 amended: whenever the cap is reached the crawl is done, mid-scan; with
\* cap 1 and the all-matching first render the crawl stops right after the
\* first root whose record is accepted, having processed before it only
\* roots whose enrichment yielded no link (none in INSTANT mode), with at
\* most one auxiliary page per processed root and none for a later root.
C5_StopsAtFirstAccepted ==
    /\ Len(results) >= limit => pc = "done"
    /\ AllMatchingScenario /\ passes = 1 =>
        /\ processed <= enrichFailed + 1
        /\ auxOpened <= enrichFailed + 1
        /\ want_easy => auxOpened = 0 /\ enrichFailed = 0
    /\ AllMatchingScenario /\ results # <<>> =>
        /\ pc = "done"
        /\ passes = 1
        /\ processed = enrichFailed + 1
        /\ origin[1].root = processed
        /\ i = processed - 1
        /\ auxOpened <= processed
        /\ want_easy => auxOpened = 0
        /\ ~want_easy => auxOpened >= 1

\* C5 witness: EXTERNAL mode, cap 1, ten matching roots: the crawl is done
\* after one root, one auxiliary page opened.
C5_Witness ==
    /\ AllMatchingScenario
    /\ ~want_easy
    /\ Len(dom) = ScenarioRoots
    /\ pc = "done"
    /\ Len(results) = 1
    /\ processed = 1
    /\ auxOpened = 1

\* C6: in EXTERNAL mode every emitted link is the non-empty link that the
\* enrichment of its root resolved, and once an enrichment failed the record
\* count is below the number of channel-matching roots scanned.
C6_AbsentIsDiscarded ==
    ~want_easy =>
        /\ \A j \in 1..Len(results) :
            /\ results[j].link # <<>>
            /\ Truthy(origin[j].ext)
            /\ results[j].link = origin[j].ext[2]
        /\ enrichFailed >= 1 => Len(results) < Cardinality(matched)

\* C6 witness: an EXTERNAL crawl that returned records although an
\* enrichment had failed.
C6_Witness ==
    /\ ~want_easy
    /\ pc = "done"
    /\ enrichFailed >= 1
    /\ Len(results) >= 1

\* C7: every record comes from a root whose badge classification matches the
\* desired channel; INSTANT, cap 5, 3 INSTANT and 2 EXTERNAL roots and no
\* further roots: exactly the 3 INSTANT records, within 5 scan passes.
C7_ChannelFiltering ==
    /\ \A j \in 1..Len(origin) :
        has_text(dom[origin[j].root].spans, Needle) = want_easy
    /\ want_easy /\ limit = 5 /\ dom \in Mixed /\ pc = "done" =>
        /\ Len(results) = 3
        /\ {origin[j].root : j \in 1..3} =
                {n \in 1..5 : has_text(dom[n].spans, Needle)}
        /\ \A j \in 1..3 : results[j].link = Canon(CardLink(dom[origin[j].root].href)[2])
        /\ passes <= 5

\* C7 witness: the scenario, ended with its 3 records after 5 passes.
C7_Witness ==
    /\ want_easy
    /\ limit = 5
    /\ dom \in Mixed
    /\ pc = "done"
    /\ Len(results) = 3
    /\ passes = 5

\* C8: the stable-pass counter is the number of completed passes in a row,
\* up to the last one, that accepted no record: reset by a pass that
\* accepted one, incremented by a pass that accepted none.
C8_StableCounter == stable_loops = zeroRun

\* C8 witness: a pass that accepted nothing followed a pass that accepted a
\* record which itself followed a pass that accepted nothing.
C8_Witness ==
    /\ pc = "scroll"
    /\ stable_loops = 1
    /\ passEnds >= 3
    /\ Len(results) >= 1
    /\ origin[Len(origin)].pass = passEnds - 1

\* The last candidate (matching root, link resolved to a new key) is through
\* its loop body
CandDone == lastCand.root # 0 /\ lastCand.done /\ ~InEnrichment

\* The last candidate's record is the last record, its role (employer) empty
\* when all its role (employer) locators failed
CandEmitted ==
    /\ results # <<>>
    /\ origin[Len(origin)].key = lastCand.key
    /\ origin[Len(origin)].root = lastCand.root
    /\ lastCand.noTitle => results[Len(results)].role = <<>>
    /\ lastCand.noEmployer => results[Len(results)].company = <<>>

\* C9 as stated: a matching root whose role (or employer) locators all fail
\* and whose link resolves to a new key still yields a record.
C9_IncompleteStillEmitted ==
    CandDone /\ (lastCand.noTitle \/ lastCand.noEmployer) => CandEmitted

\* C9 amended: ... and, in EXTERNAL mode, whose enrichment resolves an
\* external link, still yields a record, its role (employer) empty.
C9_IncompleteEmittedIfResolved ==
    CandDone /\ (lastCand.noTitle \/ lastCand.noEmployer)
        /\ (want_easy \/ Truthy(lastCand.out)) => CandEmitted

\* C9 witness: an EXTERNAL record with an empty role was emitted.
C9_Witness ==
    /\ ~want_easy
    /\ CandDone
    /\ lastCand.noTitle
    /\ Truthy(lastCand.out)
    /\ results # <<>>
    /\ results[Len(results)].role = <<>>
    /\ results[Len(results)].company # <<>>

\* C10: canonicalisation is idempotent, and leaves a link without a query
\* string as it is.
C10_CanonIdempotent ==
    /\ pc = "canon2" => canon2 = canon1
    /\ pc \in {"canon1", "canon2"} /\ (\A k \in 1..Len(link) : link[k] # "?")
            => canon1 = link

\* C10 witness: a link with two query marks, canonicalised twice.
C10_Witness ==
    /\ pc = "canon2"
    /\ Cardinality({k \in 1..Len(link) : link[k] = "?"}) = 2
    /\ canon1 # <<>>
    /\ canon1 # link

\* The listing keys of the accepted records
AcceptedKeys == { origin[j].key : j \in 1..Len(origin) }

\* C11 as stated: after every per-root step SeenKeys is exactly the set of
\* canonical keys of the accepted records, so |SeenKeys| is the accumulated
\* record count, in both modes and also when enrichment yields absent.
C11_SeenIsAcceptedKeys ==
    ~InEnrichment =>
        /\ seen = AcceptedKeys
        /\ Cardinality(seen) = Len(results)

\* C11 amended: the key is inserted when the candidate passes the
\* deduplication test, before enrichment.  After every per-root step
\* SeenKeys holds the keys of the accepted records and of the candidates
\* whose enrichment yielded absent: |SeenKeys| is the record count plus the
\* failed enrichments, and in INSTANT mode SeenKeys is exactly the keys of
\* the accepted records.  During an enrichment the key being enriched is
\* already a member.
C11_SeenIsCandidateKeys ==
    /\ AcceptedKeys \subseteq seen
    /\ ~InEnrichment => Cardinality(seen) = Len(results) + enrichFailed
    /\ InEnrichment =>
            /\ job_link \in seen
            /\ job_link \notin AcceptedKeys
            /\ Cardinality(seen) = Len(results) + enrichFailed + 1
    /\ want_easy => seen = AcceptedKeys /\ enrichFailed = 0

\* An EXTERNAL crawl that ended with a record and with a key whose
\* enrichment yielded absent
C11_Witness ==
    /\ pc = "done"
    /\ ~want_easy
    /\ Len(results) >= 1
    /\ seen # AcceptedKeys
    /\ Cardinality(seen) = Len(results) + enrichFailed

\* The fallback chain as the claim describes it: a locator that raises, has
\* no value or has an empty value falls through to the next one
RECURSIVE FirstNonEmpty(_)
FirstNonEmpty(chain) ==
    IF chain = <<>> THEN None
    ELSE IF Truthy(Head(chain)) THEN Head(chain)
    ELSE FirstNonEmpty(Tail(chain))

\* C12 as stated: the link of a root is the first non-empty value of its
\* locator chain, an empty or missing value falling through like a raise, so
\* the link is absent only if every locator raises or yields empty: every
\* channel-matching root scanned in this pass whose chain holds a non-empty
\* value has the canonical form of the first such value in SeenKeys, and the
\* apply link being appended is truthy.
C12_FirstNonEmptyWins ==
    /\ \A n \in 1..i :
          (n \in matched /\ Truthy(FirstNonEmpty(dom[n].href)))
              => Canon(FirstNonEmpty(dom[n].href)[2]) \in seen
    /\ \A j \in 1..Len(origin) :
          origin[j].ext # None => Truthy(origin[j].ext)

\* C13 as stated: a scan pass processes only the roots beyond the count
\* already processed, so every root position is classified and extracted at
\* most once over the crawl.
C13_ScannedOnce == \A n \in 1..Len(visits) : visits[n] <= 1

\* C13 amended: every pass scans the visible roots again from position 0, so
\* a root position is classified once in every pass that reaches it (at most
\* once per pass, an earlier position at least as often as a later one, the
\* root of a record in every pass from the one that accepted it); what
\* happens at most once is acceptance: a root position yields at most one
\* record, and it yields it on its first scan.
C13_RescannedAcceptedOnce ==
    /\ \A n \in 1..Len(visits) : visits[n] <= passes
    /\ \A n, m \in 1..Len(visits) : n < m => visits[n] >= visits[m]
    /\ \A j \in 1..Len(origin) :
          LET later == passes - origin[j].pass
          IN  /\ visits[origin[j].root] \in {later, later + 1}
              /\ pc = "scroll" => visits[origin[j].root] = later + 1
    /\ \A j, k \in 1..Len(origin) : j # k => origin[j].root # origin[k].root
    /\ \A j \in 1..Len(origin) : origin[j].visit = 1

\* A crawl has ended and the root of one of its records was scanned in three
\* passes or more
C13_Witness ==
    /\ pc = "done"
    /\ \E j \in 1..Len(origin) : visits[origin[j].root] >= 3

\* What is left of the current pass: the roots still to scan, six steps at
\* most for each, then the end of the pass and the scroll
PassRest ==
    CASE pc = "card" -> 6 * (count - i) + 2
      [] pc = "newpage" -> 6 * (count - i) + 1
      [] pc = "goto" -> 6 * (count - i)
      [] pc = "find" -> 6 * (count - i) - 1
      [] pc = "close" -> 6 * (count - i) - 2
      [] pc = "post" -> 6 * (count - i) - 3
      [] pc \in {"load", "scroll"} -> 1
      [] OTHER -> 0

\* C14: the crawl always terminates, whatever the feed and the cap: at most
\* 60 scan passes are begun, also for a feed that yields a newly accepted
\* record in every pass so that the stable-pass rule never fires; after the
\* 60th pass no further pass is begun and the crawl is DONE with the browser
\* closed and the accumulated records as its result.  The crawl has a next
\* step until it is DONE, and every step begins one of the at most 60 passes
\* or shortens what is left of the current pass, so no run goes on for ever.
C14_TerminatesWithinCeiling ==
    /\ [](passes <= 60)
    /\ [](pc = "scan" => passes < 60)
    /\ [](pc = "done" => ~browserOpen /\ Len(results) = Len(origin))
    /\ [](PassRest >= 0)
    /\ [](pc # "done" => ENABLED Next)
    /\ [][\/ passes' = passes + 1
          \/ passes' = passes /\ PassRest' < PassRest]_vars

\* A crawl ended by the ceiling alone: 60 passes, each of which accepted a
\* record, the cap not reached
C14_Witness ==
    /\ pc = "done"
    /\ passes = MaxPasses
    /\ Len(results) = MaxPasses
    /\ stable_loops = 0
    /\ ~CapReached(results, limit)

\* Root n is a candidate: it matches the desired channel and has a link
Candidate(n) ==
    /\ Matches(want_easy, has_text(dom[n].spans, Needle))
    /\ Truthy(CardLink(dom[n].href))

\* The canonical listing link of root n
RootKey(n) == Canon(CardLink(dom[n].href)[2])

\* C15: records are emitted in first-seen order: the accumulated list is
\* ordered by (pass, root position) of the roots that produced its records
\* and is only ever appended to; of the candidate roots that canonicalise to
\* one link only the earliest can have a record.
C15_FirstSeenOrder ==
    /\ [](\A j \in 1..Len(origin) :
            /\ j <= Len(results)
            /\ results[j].link =
                  IF origin[j].ext = None THEN origin[j].key ELSE origin[j].ext[2])
    /\ [](\A j, k \in 1..Len(origin) :
            j < k => \/ origin[j].pass < origin[k].pass
                     \/ /\ origin[j].pass = origin[k].pass
                        /\ origin[j].root < origin[k].root)
    /\ [](\A j \in 1..Len(origin) : \A n \in 1..(origin[j].root - 1) :
            ~(Candidate(n) /\ RootKey(n) = origin[j].key))
    /\ [][/\ Len(results') >= Len(results)
          /\ SubSeq(results', 1, Len(results)) = results]_vars

\* Two records were returned, and a later candidate root with the link of
\* the first record was scanned and has no record
C15_Witness ==
    /\ pc = "done"
    /\ Len(results) = 2
    /\ \E n \in 1..Len(dom) :
          /\ Candidate(n)
          /\ RootKey(n) = origin[1].key
          /\ n > origin[1].root
          /\ visits[n] >= 1

\* C16 as stated: a channel-matching root without a resolvable link is a
\* silent skip that emits nothing and leaves SeenKeys, the records and the
\* auxiliary pages alone (every record, every key of SeenKeys and every
\* enrichment belongs to a root with a link), hence every emitted record has
\* a non-empty link.
C16_NoLinkSilentSkip ==
    /\ \A j \in 1..Len(origin) : Candidate(origin[j].root)
    /\ \A k \in seen : \E n \in 1..Len(dom) : Candidate(n) /\ RootKey(n) = k
    /\ InEnrichment => Candidate(i + 1) /\ RootKey(i + 1) = job_link
    /\ \A j \in 1..Len(results) : results[j].link # <<>>

\* C17: a lapsed wait for the first root is not fatal: the crawl goes on to
\* SCANNING with the roots present, possibly none, and if no root ever
\* appears it returns the empty sequence after exactly 4 scan passes.
C17_LapsedWaitNotFatal ==
    waitLapsed =>
        /\ passes = 0 => pc = "scan"
        /\ pc = "done" => passes >= 1
        /\ (pc = "done" /\ dom = <<>>) =>
                /\ results = <<>>
                /\ passes = 4
                /\ passEnds = 4

\* The wait lapsed, no root ever appeared and the crawl has returned
C17_Witness ==
    /\ waitLapsed
    /\ pc = "done"
    /\ dom = <<>>
    /\ results = <<>>
    /\ ~browserOpen

\* C18: in EXTERNAL mode the detail page of a canonical listing link is
\* opened at most once per crawl, also when its enrichment failed, although
\* the roots are scanned again in every pass: a root is enriched at most
\* once, on its first scan, no two enriched roots share a canonical link,
\* a page is opened only within an enrichment, and INSTANT mode enriches
\* nothing.
C18_DetailPageOpenedOnce ==
    /\ \A n \in 1..Len(enriched) :
          /\ enriched[n] <= 1
          /\ enriched[n] = 1 => ~want_easy /\ Candidate(n)
          /\ (enriched[n] = 1 /\ visits[n] >= 2) => ~(InEnrichment /\ i + 1 = n)
    /\ \A n, m \in 1..Len(enriched) :
          (n < m /\ enriched[n] = 1 /\ enriched[m] = 1) => RootKey(n) # RootKey(m)
    /\ auxOpened <= Cardinality({ n \in 1..Len(enriched) : enriched[n] = 1 })
    /\ InEnrichment => enriched[i + 1] = 1 /\ RootKey(i + 1) = job_link

\* An EXTERNAL crawl has ended in which a root whose enrichment failed was
\* scanned in three passes or more and a single detail page was opened
C18_Witness ==
    /\ pc = "done"
    /\ ~want_easy
    /\ enrichFailed = 1
    /\ auxOpened = 1
    /\ results = <<>>
    /\ \E n \in 1..Len(dom) : Candidate(n) /\ visits[n] >= 3

\* C19: in INSTANT mode no auxiliary page is ever opened and nothing is
\* enriched, and the link of every emitted record is the canonical listing
\* link of its root, free of any query string, and a member of SeenKeys.
C19_InstantEmitsListingLink ==
    want_easy =>
        /\ auxOpened = 0
        /\ openPages = 0
        /\ ~InEnrichment
        /\ \A n \in 1..Len(enriched) : enriched[n] = 0
        /\ \A j \in 1..Len(results) :
              /\ results[j].link = RootKey(origin[j].root)
              /\ results[j].link \in seen
              /\ \A k \in 1..Len(results[j].link) : results[j].link[k] # "?"

\* An INSTANT crawl has returned two records, one of them for a root whose
\* href carried a query string
C19_Witness ==
    /\ want_easy
    /\ pc = "done"
    /\ Len(results) = 2
    /\ \E j \in 1..Len(results) :
          results[j].link # CardLink(dom[origin[j].root].href)[2]

====
